---- MODULE Spec2Model ----
(***************************************************************************)
(* MatchaTTS.forward (training step) and MatchaTTS.synthesise (inference)  *)
(* of matcha/models/matcha_tts.py, for one example of a batch.             *)
(*                                                                         *)
(* Tensors are functions on 0..n-1.  Feature vectors have one dimension.   *)
(* Reals are fixed point, the unit named where a value is defined:         *)
(*   alignment scores         1/200                                        *)
(*   log-durations, exp, log  1/100                                        *)
(*   scaled durations         1/2   (length_scale is a multiple of 1/2)    *)
(*   ODE state                1/n_timesteps                                *)
(* maximum_path, generate_path, sequence_mask, fix_len_compatibility,      *)
(* duration_loss and the CFM decoder are imported by matcha_tts.py from    *)
(* other modules of the package; they are written here after the design    *)
(* document (sections 4.2 to 4.5 and 7).                                   *)
(***************************************************************************)
EXTENDS Integers, Sequences, FiniteSets, TLC

\* ------------------------------------------------------------- bounds
MaxTx == 3          \* longest padded text (tokens)
MaxTy == 4          \* padded target length in training (frames)
MaxSteps == 4       \* largest n_timesteps

\* ------------------------------------------------------- input values
MuVals == {0, 1, 2}             \* encoder means mu_x
ZVals == {0, 2}                 \* posterior latents z_spec
PadMuVals == {2}                \* encoder means at a padded token
PadZVals == {2}                 \* posterior latents at a padded frame, before masking
TrainLogwVals == {0, 69}        \* predicted log-durations in training: log 1, log 2
SynthLogwVals == {-100, 69}     \* predicted log-durations in inference
PadLogwVals == {69}             \* predicted log-durations at a padded token
LengthScales == {1, 2, 3, 4}    \* length_scale 0.5, 1.0, 1.5, 2.0 in halves
Temperatures == {0, 1}
Fields == {"zero", "const"}     \* vector-field estimators: f = 0, f = 1
MelVals == {0, -5}              \* what vocoder + feature extractor may give back

VARIABLES
    pc,           \* "idle", "decoder", "euler", "done", "error"; "cost" in the search-only runs
    call,         \* "none", "forward", "synthesise", "mas"
    err,          \* "none" or the error raised
    x_max,        \* max_text_length: padded token axis
    y_max,        \* padded frame axis (y.shape[-1] / y_max_length_)
    x_len,        \* x_lengths: valid tokens
    y_len,        \* y_lengths: valid frames
    mu_x,         \* encoder means, per token
    z_spec,       \* masked posterior latents, per frame (forward)
    logw,         \* predicted log-durations, per token
    neg_cent,     \* alignment scores [frame][token] (forward)
    attn,         \* alignment [token][frame]
    logw_,        \* target log-durations (forward)
    dur_loss,     \* duration loss, [num, den] (forward)
    mu_y,         \* expanded prior, per frame
    length_scale, \* in halves (synthesise)
    w_ceil,       \* scaled durations in halves, per token (synthesise)
    n_timesteps,  \* argument of synthesise
    temperature,  \* argument of synthesise
    field,        \* the vector-field estimator in use
    x_0,          \* initial ODE state times n_timesteps, per frame
    x_t,          \* ODE state times n_timesteps, per frame
    k,            \* Euler steps taken
    dec_out,      \* decoder_outputs handed to the vocoder
    mel           \* returned "decoder_outputs"

vars == <<pc, call, err, x_max, y_max, x_len, y_len, mu_x, z_spec, logw,
          neg_cent, attn, logw_, dur_loss, mu_y, length_scale, w_ceil,
          n_timesteps, temperature, field, x_0, x_t, k, dec_out, mel>>

\* ------------------------------------------------------------ helpers
Range0(n) == 0 .. (n - 1)

Max2(a, b) == IF a >= b THEN a ELSE b

RECURSIVE SumTo(_, _)
\* f[0] + ... + f[n-1]
SumTo(f, n) == IF n = 0 THEN 0 ELSE f[n - 1] + SumTo(f, n - 1)

\* sequence_mask(length, max_length): arange(max_length) < length
SequenceMask(length, max_length) ==
    [j \in Range0(max_length) |-> IF j < length THEN 1 ELSE 0]

\* ----------------------------------------------------- forward: scores
\* 0.5 * log(2 * pi) = 0.9189, in 1/200
HalfLog2Pi == 184

\* neg_cent = neg_cent1 + neg_cent2 + neg_cent3 + neg_cent4, [frame][token]
NegCent(mu, z) ==
    [j \in DOMAIN z |-> [i \in DOMAIN mu |->
        (0 - HalfLog2Pi) + (0 - 100 * z[j] * z[j]) + 200 * z[j] * mu[i]
        + (0 - 100 * mu[i] * mu[i])]]

\* a plausible slip: y_mask left out of the product
AttnMaskNoYMask(x_mask, y_mask) ==
    [j \in DOMAIN y_mask |-> [i \in DOMAIN x_mask |-> x_mask[i]]]

\* attn_mask = torch.unsqueeze(x_mask, 2) * torch.unsqueeze(y_mask, -1), [frame][token]
AttnMask(x_mask, y_mask) ==
    [j \in DOMAIN y_mask |-> [i \in DOMAIN x_mask |-> x_mask[i] * y_mask[j]]]

\* ------------------------------------------- monotonic alignment search
\* minus infinity of the score arithmetic
NegInf == -100000000

AddInf(a, b) == IF a = NegInf \/ b = NegInf THEN NegInf ELSE a + b

\* the valid bounds the mask stands for
ValidTx(mask) ==
    Cardinality(UNION {{i \in DOMAIN mask[j] : mask[j][i] = 1} : j \in DOMAIN mask})

ValidTy(mask) ==
    Cardinality({j \in DOMAIN mask : \E i \in DOMAIN mask[j] : mask[j][i] = 1})

\* cells outside the valid region are minus infinity before the search runs
MaskedCost(c, mask) ==
    [j \in DOMAIN c |-> [i \in DOMAIN c[j] |->
        IF mask[j][i] = 1 THEN c[j][i] ELSE NegInf]]

RECURSIVE Score(_, _, _)
\* score[i][j] = cost[i][j] + max(score[i-1][j-1], score[i][j-1]),
\* score[0][0] = cost[0][0], cells with i > j unreachable
Score(c, i, j) ==
    IF i > j THEN NegInf
    ELSE IF j = 0 THEN c[0][0]
    ELSE AddInf(c[j][i],
                Max2(IF i = 0 THEN NegInf ELSE Score(c, i - 1, j - 1),
                     Score(c, i, j - 1)))

\* the backtracking choice at (i, j), j >= 1: the token of frame j - 1
PrevTokenStrict(c, i, j) ==
    IF i = 0 THEN 0
    ELSE IF Score(c, i - 1, j - 1) > Score(c, i, j - 1) THEN i - 1 ELSE i

\* diagonal predecessor if its score >= the horizontal one's; at i = 0
\* the remaining frames belong to token 0
PrevToken(c, i, j) ==
    IF i = 0 THEN 0
    ELSE IF Score(c, i - 1, j - 1) >= Score(c, i, j - 1) THEN i - 1 ELSE i

RECURSIVE Backtrack(_, _, _, _)
\* from (i, j) down to frame 0: frame |-> token
Backtrack(c, i, j, acc) ==
    LET acc2 == (j :> i) @@ acc
    IN  IF j = 0 THEN acc2
        ELSE Backtrack(c, PrevToken(c, i, j), j - 1, acc2)

\* maximum_path(neg_cent, mask): [err, path], path [frame][token]
MaximumPath(c, mask) ==
    LET tx == ValidTx(mask)
        ty == ValidTy(mask)
    IN  IF tx = 0 \/ ty = 0
        THEN [err |-> "InvalidLengthError", path |-> << >>]
        ELSE IF tx > ty
        THEN [err |-> "InvalidInputError", path |-> << >>]
        ELSE LET toks == Backtrack(MaskedCost(c, mask), tx - 1, ty - 1, << >>)
             IN  [err |-> "none",
                  path |-> [j \in DOMAIN c |-> [i \in DOMAIN c[j] |->
                      IF j < ty /\ toks[j] = i THEN 1 ELSE 0]]]

\* ---------------------------------------------- forward: duration loss
\* log(1e-8 + d) in 1/100, d a frame count
LogFix(d) ==
    CASE d = 0 -> -1842
      [] d = 1 -> 0
      [] d = 2 -> 69
      [] d = 3 -> 110
      [] d = 4 -> 139
      [] d = 5 -> 161
      [] d = 6 -> 179
      [] OTHER -> 195

\* a plausible slip: the sum taken over the token axis, attn.sum(3)
LogwTargetWrongAxis(path, x_mask) ==
    [i \in DOMAIN x_mask |->
        LogFix(IF i \in DOMAIN path
               THEN SumTo(path[i], Cardinality(DOMAIN path[i])) ELSE 0)
        * x_mask[i]]

\* logw_ = torch.log(1e-8 + attn.sum(2)) * x_mask, attn [frame][token]
LogwTarget(path, x_mask) ==
    [i \in DOMAIN x_mask |->
        LogFix(SumTo([j \in DOMAIN path |-> path[j][i]],
                     Cardinality(DOMAIN path)))
        * x_mask[i]]

\* duration_loss(logw, logw_, lengths): squared error over the valid
\* tokens, divided by the number of valid tokens; kept as a fraction
DurationLoss(lw, lw_target, lengths) ==
    [num |-> SumTo([i \in DOMAIN lw |->
                       IF i < lengths
                       THEN (lw[i] - lw_target[i]) * (lw[i] - lw_target[i])
                       ELSE 0],
                   Cardinality(DOMAIN lw)),
     den |-> lengths]

\* ------------------------------------------------------- path expander
\* attn.squeeze(1).transpose(1, 2) of a [frame][token] tensor: [token][frame]
Transpose(path, n_tok, n_frm) ==
    [i \in Range0(n_tok) |-> [j \in Range0(n_frm) |-> path[j][i]]]

\* a plausible slip: every valid token weighs in on every frame it precedes
ExpandPriorBlend(at, mu, n_frm) ==
    [j \in Range0(n_frm) |->
        SumTo([i \in DOMAIN mu |->
                  (IF \E jj \in Range0(n_frm) : jj <= j /\ at[i][jj] = 1
                   THEN 1 ELSE 0) * mu[i]],
              Cardinality(DOMAIN mu))]

\* mu_y = torch.matmul(attn.squeeze(1).transpose(1, 2), mu_x.transpose(1, 2)),
\* attn [token][frame]
ExpandPrior(at, mu, n_frm) ==
    [j \in Range0(n_frm) |->
        SumTo([i \in DOMAIN mu |-> at[i][j] * mu[i]], Cardinality(DOMAIN mu))]

\* ------------------------------------------------ synthesise: durations
\* torch.exp in 1/100, on the log-durations tried
ExpFix(l) ==
    CASE l = -100 -> 37
      [] l = 0 -> 100
      [] l = 69 -> 199
      [] OTHER -> 272

\* torch.ceil of a value in 1/100: a whole number
CeilFix(h) == (h + 99) \div 100

\* a plausible slip: x_mask left out
WCeilNoMask(lw, x_mask, ls) ==
    [i \in DOMAIN lw |-> CeilFix(ExpFix(lw[i])) * ls]

\* w = torch.exp(logw) * x_mask; w_ceil = torch.ceil(w) * length_scale, in halves
WCeil(lw, x_mask, ls) ==
    [i \in DOMAIN lw |-> CeilFix(ExpFix(lw[i]) * x_mask[i]) * ls]

\* a plausible slip: clamp_min left out
YLengthsNoClamp(wc) == SumTo(wc, Cardinality(DOMAIN wc)) \div 2

\* y_lengths = torch.clamp_min(torch.sum(w_ceil, [1, 2]), 1).long()
YLengths(wc) == Max2(SumTo(wc, Cardinality(DOMAIN wc)), 2) \div 2

\* the multiple the decoder's downsampling asks of the length
LenFactor == 2

\* fix_len_compatibility(length): rounded up to a multiple of LenFactor
FixLenCompatibility(length) ==
    ((length + LenFactor - 1) \div LenFactor) * LenFactor

\* attn_mask = x_mask.unsqueeze(-1) * y_mask.unsqueeze(2), [token][frame]
SynthAttnMask(x_mask, y_mask) ==
    [i \in DOMAIN x_mask |-> [j \in DOMAIN y_mask |-> x_mask[i] * y_mask[j]]]

\* generate_path(duration, mask): token i takes the frames from the summed
\* durations before it up to the summed durations including it, then * mask
GeneratePath(duration, mask) ==
    [i \in DOMAIN duration |-> [j \in DOMAIN mask[i] |->
        ((IF 2 * j < SumTo(duration, i + 1) THEN 1 ELSE 0)
         - (IF 2 * j < SumTo(duration, i) THEN 1 ELSE 0)) * mask[i][j]]]

\* ---------------------------------------------------- synthesise: decoder
\* a plausible slip: a default put in the place of a bad step count
StepsArgDefault(n) == IF n <= 0 THEN 1 ELSE n

\* self.decoder(encoder_outputs, y_mask, n_timesteps, temperature, spks):
\* the step count handed on
StepsArg(n) == n

\* a plausible slip: the default temperature handed on
TemperatureArgDefault(t) == 1

\* the temperature handed on
TemperatureArg(t) == t

\* the estimator's velocity at a valid frame, times 1 (added to x_t * N)
Velocity(f) == IF f = "zero" THEN 0 ELSE 1

\* x_{k+1} = x_k + (1/N) * f(x_k, k/N, conditioning), the velocity masked
EulerUpdate(x, f, y_mask) ==
    [j \in DOMAIN x |-> x[j] + Velocity(f) * y_mask[j]]

\* the standard-normal sample drawn for the initial state
Noise(n_frm) == [j \in Range0(n_frm) |-> IF j % 2 = 0 THEN 1 ELSE -1]

\* ----------------------------------------------------------- the calls
Init ==
    /\ pc = "idle" /\ call = "none" /\ err = "none"
    /\ x_max = 0 /\ y_max = 0 /\ x_len = 0 /\ y_len = 0
    /\ mu_x = << >> /\ z_spec = << >> /\ logw = << >>
    /\ neg_cent = << >> /\ attn = << >> /\ logw_ = << >>
    /\ dur_loss = [num |-> 0, den |-> 0] /\ mu_y = << >>
    /\ length_scale = 0 /\ w_ceil = << >>
    /\ n_timesteps = 0 /\ temperature = 0 /\ field = "zero"
    /\ x_0 = << >> /\ x_t = << >> /\ k = 0 /\ dec_out = << >> /\ mel = << >>

\* the predicted log-durations tried in training
TrainLogw(tx) ==
    {[i \in Range0(tx) |-> v] : v \in TrainLogwVals}
    \cup {[i \in Range0(tx) |-> IF i % 2 = 0 THEN 0 ELSE 69]}

SynthUnchanged ==
    UNCHANGED <<length_scale, w_ceil, n_timesteps, temperature, field,
                x_0, x_t, k, dec_out, mel>>

\* forward(x, x_lengths, y, y_lengths, spks), up to mu_y
Forward ==
    /\ pc = "idle"
    /\ \E tx \in 1 .. MaxTx :
       \E xl \in 0 .. tx, yl \in 0 .. MaxTy :
       \E muv \in [Range0(xl) -> MuVals], zv \in [Range0(yl) -> ZVals] :
       \E mup \in PadMuVals, zp \in PadZVals, lw \in TrainLogw(tx) :
         LET x_mask == SequenceMask(xl, tx)
             y_mask == SequenceMask(yl, MaxTy)
             mu == [i \in Range0(tx) |-> IF i < xl THEN muv[i] ELSE mup]
             z == [j \in Range0(MaxTy) |-> IF j < yl THEN zv[j] ELSE zp]
             \* z_spec = z_spec * spec_mask
             zs == [j \in Range0(MaxTy) |-> z[j] * y_mask[j]]
             nc == NegCent(mu, zs)
             mp == MaximumPath(nc, AttnMask(x_mask, y_mask))
             tgt == LogwTarget(mp.path, x_mask)
             at == Transpose(mp.path, tx, MaxTy)
         IN  /\ call' = "forward"
             /\ x_max' = tx /\ y_max' = MaxTy /\ x_len' = xl /\ y_len' = yl
             /\ mu_x' = mu /\ z_spec' = zs /\ logw' = lw
             /\ neg_cent' = nc
             /\ IF mp.err # "none"
                THEN /\ pc' = "error" /\ err' = mp.err
                     /\ UNCHANGED <<attn, logw_, dur_loss, mu_y>>
                ELSE /\ attn' = at
                     /\ logw_' = tgt
                     /\ dur_loss' = DurationLoss(lw, tgt, xl)
                     \* the second attn.squeeze(1) drops a token axis of size 1
                     \* and transpose(1, 2) then has no dimension 2
                     /\ IF tx = 1
                        THEN /\ pc' = "error" /\ err' = "IndexError"
                             /\ UNCHANGED mu_y
                        ELSE /\ pc' = "done" /\ err' = "none"
                             /\ mu_y' = ExpandPrior(at, mu, MaxTy)
    /\ SynthUnchanged

\* the encoder means tried in inference
SynthMu(tx) ==
    {[i \in Range0(tx) |-> i + 1], [i \in Range0(tx) |-> IF i < 2 THEN 2 ELSE 1]}

TrainUnchanged == UNCHANGED <<z_spec, neg_cent, logw_, dur_loss>>

\* synthesise(x, x_lengths, n_timesteps, temperature, spks, length_scale),
\* up to encoder_outputs
Synthesise ==
    /\ pc = "idle"
    /\ \E tx \in 1 .. MaxTx :
       \E xl \in 0 .. tx, ls \in LengthScales :
       \E mu \in SynthMu(tx), lwv \in [Range0(xl) -> SynthLogwVals] :
       \E lwp \in PadLogwVals, n \in -1 .. MaxSteps, temp \in Temperatures :
         LET x_mask == SequenceMask(xl, tx)
             lw == [i \in Range0(tx) |-> IF i < xl THEN lwv[i] ELSE lwp]
             wc == WCeil(lw, x_mask, ls)
             y_lengths == YLengths(wc)
             y_max_length_ == FixLenCompatibility(y_lengths)
             y_mask == SequenceMask(y_lengths, y_max_length_)
             at == GeneratePath(wc, SynthAttnMask(x_mask, y_mask))
         IN  /\ call' = "synthesise" /\ pc' = "decoder"
             /\ x_max' = tx /\ x_len' = xl /\ mu_x' = mu /\ logw' = lw
             /\ length_scale' = ls /\ n_timesteps' = n /\ temperature' = temp
             /\ w_ceil' = wc /\ y_len' = y_lengths /\ y_max' = y_max_length_
             /\ attn' = at
             /\ mu_y' = ExpandPrior(at, mu, y_max_length_)
    /\ TrainUnchanged
    /\ UNCHANGED <<err, field, x_0, x_t, k, dec_out, mel>>

FrontUnchanged ==
    UNCHANGED <<call, x_max, y_max, x_len, y_len, mu_x, z_spec, logw, neg_cent,
                attn, logw_, dur_loss, mu_y, length_scale, w_ceil,
                n_timesteps, temperature>>

\* the decoder is entered: a step count <= 0 is refused, else the initial
\* state is noise scaled by the temperature
DecoderStart ==
    /\ pc = "decoder"
    /\ \E f \in Fields :
         IF StepsArg(n_timesteps) <= 0
         THEN /\ pc' = "error" /\ err' = "StepCountError"
              /\ UNCHANGED <<field, x_0, x_t, k>>
         ELSE LET x == [j \in Range0(y_max) |->
                           Noise(y_max)[j] * TemperatureArg(temperature)
                           * StepsArg(n_timesteps)]
              IN  /\ pc' = "euler" /\ field' = f
                  /\ x_0' = x /\ x_t' = x /\ k' = 0
                  /\ UNCHANGED err
    /\ FrontUnchanged
    /\ UNCHANGED <<dec_out, mel>>

\* one fixed-step Euler step
EulerStep ==
    /\ pc = "euler"
    /\ k < StepsArg(n_timesteps)
    /\ x_t' = EulerUpdate(x_t, field, SequenceMask(y_len, y_max))
    /\ k' = k + 1
    /\ FrontUnchanged
    /\ UNCHANGED <<pc, err, field, x_0, dec_out, mel>>

\* the decoder returns; vocoder, feature extractor and normalize give the
\* returned "decoder_outputs"
Finish ==
    /\ pc = "euler"
    /\ k = StepsArg(n_timesteps)
    /\ dec_out' = [j \in Range0(y_max) |-> x_t[j] \div StepsArg(n_timesteps)]
    /\ \E v \in MelVals : mel' = [j \in Range0(y_max) |-> v]
    /\ pc' = "done"
    /\ FrontUnchanged
    /\ UNCHANGED <<err, field, x_0, x_t, k>>

Next == Forward \/ Synthesise \/ DecoderStart \/ EulerStep \/ Finish

Spec == Init /\ [][Next]_vars

\* ------------------------------------------- the search on given scores
\* cost[i][j] = -(i - j/2)^2 of the worked example, times 4, [frame][token]
ExampleCost == [j \in 0 .. 5 |-> [i \in 0 .. 2 |-> 0 - (2 * i - j) * (2 * i - j)]]

\* score matrices handed to the search directly: the quadratic family of the
\* worked example on 3 tokens x 6 frames, and mixed scores on 5 x 5
GivenCosts ==
    {[j \in 0 .. 5 |-> [i \in 0 .. 2 |-> 0 - (p * i - q * j) * (p * i - q * j)]] :
        p \in 0 .. 3, q \in 0 .. 3}
    \cup
    {[j \in 0 .. 4 |-> [i \in 0 .. 4 |-> ((a * i * i + b * j + c * i * j + i) % 7) - 3]] :
        a \in 0 .. 3, b \in 0 .. 3, c \in 0 .. 3}

InitMAS ==
    /\ pc = "cost" /\ call = "mas" /\ err = "none"
    /\ neg_cent \in GivenCosts
    /\ x_max = Cardinality(DOMAIN neg_cent[0])
    /\ y_max = Cardinality(DOMAIN neg_cent)
    /\ x_len \in 0 .. x_max /\ y_len \in 0 .. y_max
    /\ mu_x = << >> /\ z_spec = << >> /\ logw = << >>
    /\ attn = << >> /\ logw_ = << >>
    /\ dur_loss = [num |-> 0, den |-> 0] /\ mu_y = << >>
    /\ length_scale = 0 /\ w_ceil = << >>
    /\ n_timesteps = 0 /\ temperature = 0 /\ field = "zero"
    /\ x_0 = << >> /\ x_t = << >> /\ k = 0 /\ dec_out = << >> /\ mel = << >>

\* attn_mask and maximum_path of forward, on the scores at hand
AlignCost ==
    /\ pc = "cost"
    /\ LET x_mask == SequenceMask(x_len, x_max)
           y_mask == SequenceMask(y_len, y_max)
           mp == MaximumPath(neg_cent, AttnMask(x_mask, y_mask))
       IN  IF mp.err # "none"
           THEN /\ pc' = "error" /\ err' = mp.err
                /\ UNCHANGED <<attn, logw_>>
           ELSE /\ pc' = "done" /\ err' = "none"
                /\ attn' = Transpose(mp.path, x_max, y_max)
                /\ logw_' = LogwTarget(mp.path, x_mask)
    /\ UNCHANGED <<call, x_max, y_max, x_len, y_len, mu_x, z_spec, logw,
                   neg_cent, dur_loss, mu_y>>
    /\ SynthUnchanged

NextMAS == AlignCost

SpecMAS == InitMAS /\ [][NextMAS]_vars

\* ------------------------------------------------------------ properties
\* the search has returned a path in this state
Aligned ==
    /\ call \in {"forward", "mas"}
    /\ pc \in {"done", "error"}
    /\ err \in {"none", "IndexError"}

TokensOf(j) == {i \in Range0(x_max) : attn[i][j] = 1}

FramesOf(i) == {j \in Range0(y_max) : attn[i][j] = 1}

Tok(j) == CHOOSE i \in Range0(x_max) : attn[i][j] = 1

Dur(i) == SumTo(attn[i], y_max)

\* C1: the path the search returns assigns every valid frame to exactly one
\* token and no padded frame to any, starts at (0, 0), ends at the last valid
\* token and frame, moves up by 0 or 1 token per frame, and its row sums are
\* non-negative and sum to the number of valid frames; a path is returned for
\* every pair of lengths 1 <= Tx_valid <= Ty_valid.
C1_PathMonotonic ==
    /\ (call = "forward" /\ 1 <= x_len /\ x_len <= y_len) => Aligned
    /\ Aligned =>
        /\ 1 <= x_len /\ x_len <= y_len
        /\ \A i \in Range0(x_max), j \in Range0(y_max) : attn[i][j] \in {0, 1}
        /\ \A j \in Range0(y_max) :
              Cardinality(TokensOf(j)) = IF j < y_len THEN 1 ELSE 0
        /\ attn[0][0] = 1
        /\ attn[x_len - 1][y_len - 1] = 1
        /\ \A j \in 1 .. (y_len - 1) : Tok(j) - Tok(j - 1) \in {0, 1}
        /\ \A i \in Range0(x_max) : Dur(i) >= 0
        /\ \A i \in Range0(x_max) : i >= x_len => Dur(i) = 0
        /\ SumTo([i \in Range0(x_max) |-> Dur(i)], x_len) = y_len

C1_Witness ==
    /\ call = "forward" /\ pc = "done"
    /\ x_max = 3 /\ x_len = 2 /\ y_len = 3
    /\ Dur(0) = 1 /\ Dur(1) = 2

\* the total score of the returned path
PathScore == SumTo([j \in Range0(y_len) |-> neg_cent[j][Tok(j)]], y_len)

\* every monotonic path from (0, 0) to (tx - 1, ty - 1), frame |-> token:
\* one for each choice of the tx - 1 frames at which the token index rises
MonotonicPaths(tx, ty) ==
    {[j \in Range0(ty) |-> Cardinality({r \in rises : r <= j})] :
        rises \in {R \in SUBSET (1 .. (ty - 1)) : Cardinality(R) = tx - 1}}

BruteScores ==
    {SumTo([j \in Range0(y_len) |-> neg_cent[j][p[j]]], y_len) :
        p \in MonotonicPaths(x_len, y_len)}

\* C2: the total score of the returned path is the largest total score of
\* any monotonic path from (0, 0) to (Tx_valid - 1, Ty_valid - 1), found by
\* enumerating them all, and is the score the recurrence gives that cell.
C2_Optimal ==
    Aligned =>
        /\ PathScore \in BruteScores
        /\ \A v \in BruteScores : v <= PathScore
        /\ PathScore = Score(neg_cent, x_len - 1, y_len - 1)

C2_Witness ==
    /\ call = "mas" /\ pc = "done"
    /\ x_len = 3 /\ y_len = 5 /\ y_max = 5
    /\ Cardinality(BruteScores) >= 4
    /\ Dur(0) = 2 /\ Dur(1) = 1

\* the scores with every padded cell replaced by v
Corrupted(v) ==
    [j \in Range0(y_max) |-> [i \in Range0(x_max) |->
        IF i >= x_len \/ j >= y_len THEN v + i - j ELSE neg_cent[j][i]]]

CorruptVals == {-100000, 0, 100000}

\* C3: no padded frame or token is on the path, and the path and the
\* durations are the same when the scores of the padded cells are replaced
\* by other values.
C3_PaddingIgnored ==
    Aligned =>
        /\ \A i \in Range0(x_max), j \in Range0(y_max) :
              attn[i][j] = 1 => (i < x_len /\ j < y_len)
        /\ \A v \in CorruptVals :
              LET x_mask == SequenceMask(x_len, x_max)
                  mp == MaximumPath(Corrupted(v),
                                    AttnMask(x_mask, SequenceMask(y_len, y_max)))
              IN  /\ mp.err = "none"
                  /\ Transpose(mp.path, x_max, y_max) = attn
                  /\ LogwTarget(mp.path, x_mask) = logw_

C3_Witness ==
    /\ call = "forward" /\ pc = "done"
    /\ x_max = 3 /\ x_len = 2 /\ y_len = 3 /\ y_max = 4
    /\ mu_x[2] = 2 /\ neg_cent[3][2] # neg_cent[3][0]
    /\ Corrupted(100000) # neg_cent

\* C6: on the worked example the path gives frames 0-1 to token 0, 2-3 to
\* token 1 and 4-5 to token 2; and wherever a path is returned, the token of
\* frame j - 1 is one below the token i of frame j exactly when i >= 1 and
\* score[i-1][j-1] >= score[i][j-1], ties included.
C6_WorkedExample ==
    (call = "mas" /\ pc = "done") =>
        /\ (neg_cent = ExampleCost /\ x_len = 3 /\ y_len = 6) =>
              /\ attn = [i \in 0 .. 2 |-> [j \in 0 .. 5 |->
                            IF j \in {2 * i, 2 * i + 1} THEN 1 ELSE 0]]
              /\ Dur(0) = 2 /\ Dur(1) = 2 /\ Dur(2) = 2
        /\ attn[x_len - 1][y_len - 1] = 1
        /\ \A j \in 1 .. (y_len - 1) :
              LET i == Tok(j)
              IN  Tok(j - 1) =
                    IF i >= 1 /\ Score(neg_cent, i - 1, j - 1) >= Score(neg_cent, i, j - 1)
                    THEN i - 1 ELSE i

\* the worked example, with its two ties on the way back
C6_Witness ==
    /\ call = "mas" /\ pc = "done"
    /\ neg_cent = ExampleCost /\ x_len = 3 /\ y_len = 6
    /\ Score(neg_cent, 1, 3) = Score(neg_cent, 2, 3)
    /\ Score(neg_cent, 0, 1) = Score(neg_cent, 1, 1)
    /\ Tok(3) = 1 /\ Tok(1) = 0

\* ------------------------------------------------ inference expansion
Synthesised == call = "synthesise"

\* summed scaled durations, in halves
TotalDuration == SumTo(w_ceil, x_max)

\* ceil(exp(log_duration)) of the log-durations tried, worked out by hand:
\* exp(-1.00) = 0.37 and exp(0.69) = 1.99
CeilExp(l) == IF l = -100 THEN 1 ELSE 2

\* each token's frames are consecutive, tokens come in increasing order and
\* no padded frame has a token
ExpansionShape ==
    /\ \A i \in Range0(x_max), j \in Range0(y_max) : attn[i][j] \in {0, 1}
    /\ \A i \in Range0(x_max) : \A j1, j2 \in FramesOf(i) :
          \A j \in j1 .. j2 : j \in FramesOf(i)
    /\ \A i1, i2 \in Range0(x_max) :
          i1 < i2 => \A j1 \in FramesOf(i1), j2 \in FramesOf(i2) : j1 < j2
    /\ \A j \in Range0(y_max) : j >= y_len => TokensOf(j) = {}

\* duration_i = ceil(exp(log_duration_i)) * length_scale on valid tokens, 0 on
\* padded ones
DurationsAsStated ==
    \A i \in Range0(x_max) :
        w_ceil[i] = IF i < x_len THEN CeilExp(logw[i]) * length_scale ELSE 0

\* C4 as stated, for an example with at least one valid token: whatever the
\* length_scale, token i has exactly duration_i consecutive frames, in
\* increasing token order, and every valid frame has exactly one token,
\* every padded frame none.
C4_AsStated ==
    (Synthesised /\ x_len >= 1) =>
        /\ DurationsAsStated
        /\ ExpansionShape
        /\ \A i \in Range0(x_max) : 2 * Cardinality(FramesOf(i)) = w_ceil[i]
        /\ \A j \in Range0(y_len) : Cardinality(TokensOf(j)) = 1

\* C4, amended: the output length is the summed durations rounded down, and
\* 1 when they sum to less than 1; each token's frames are consecutive, in
\* increasing token order, and padded frames have no token; every valid frame
\* has exactly one token when the durations do not sum to 0; token i has
\* exactly duration_i frames when length_scale is a whole number.
C4_Expansion ==
    Synthesised =>
        /\ DurationsAsStated
        /\ y_len = (IF TotalDuration >= 2 THEN TotalDuration \div 2 ELSE 1)
        /\ y_max >= y_len /\ y_max < y_len + LenFactor /\ y_max % LenFactor = 0
        /\ ExpansionShape
        /\ TotalDuration > 0 =>
              \A j \in Range0(y_len) : Cardinality(TokensOf(j)) = 1
        /\ length_scale % 2 = 0 =>
              \A i \in Range0(x_max) : 2 * Cardinality(FramesOf(i)) = w_ceil[i]

\* length_scale 2.0, two valid tokens of three with durations 2 and 4: the
\* first on frames 0 and 1, the second on frames 2 to 5
C4_Witness ==
    /\ Synthesised
    /\ x_max = 3 /\ x_len = 2 /\ length_scale = 4
    /\ logw = (0 :> -100 @@ 1 :> 69 @@ 2 :> 69)
    /\ y_len = 6 /\ FramesOf(0) = {0, 1} /\ FramesOf(1) = {2, 3, 4, 5}

\* ------------------------------------------------------- path expander
\* mu_y has been computed in this state
Expanded == (call = "forward" /\ pc = "done") \/ Synthesised

\* some token has frames to give
HasDuration == call = "forward" \/ TotalDuration > 0

MuAlt == {-7, 9}

LossComputed == call = "forward" /\ pc \in {"done", "error"} /\ err \in {"none", "IndexError"}

LogwAlt == {-500, 300}

\* C7: the duration loss is 0 when the predicted log-duration is
\* log(1e-8 + duration) at every valid token, duration the row sum of the
\* alignment; and it is the same for any other predicted or target value at
\* a padded token.
C7_DurationLoss ==
    LossComputed =>
        /\ dur_loss.den = x_len
        /\ (\A i \in Range0(x_len) : logw[i] = LogFix(Dur(i))) => dur_loss.num = 0
        /\ \A i \in Range0(x_max) : i < x_len => logw_[i] = LogFix(Dur(i))
        /\ \A i \in Range0(x_max), v \in LogwAlt :
              i >= x_len =>
                  /\ DurationLoss([logw EXCEPT ![i] = v], logw_, x_len) = dur_loss
                  /\ DurationLoss(logw, [logw_ EXCEPT ![i] = v], x_len) = dur_loss

\* two valid tokens of two frames each, predicted log 2 everywhere: the
\* padded token's prediction differs from its target 0
C7_Witness ==
    /\ call = "forward" /\ pc = "done"
    /\ x_max = 3 /\ x_len = 2 /\ y_len = 4
    /\ Dur(0) = 2 /\ Dur(1) = 2
    /\ logw = (0 :> 69 @@ 1 :> 69 @@ 2 :> 69)
    /\ logw_[2] = 0
    /\ dur_loss.num = 0

\* ----------------------------------------------------------- the decoder
Zeros(n) == [j \in Range0(n) |-> 0]

\* the ODE state under the zero vector field, and what the decoder returns
ZeroFieldState ==
    /\ (pc = "euler" /\ field = "zero") => x_t = x_0
    /\ (pc = "done" /\ call = "synthesise" /\ field = "zero") =>
          /\ x_t = x_0
          /\ \A j \in Range0(y_max) : dec_out[j] * n_timesteps = x_0[j]
          /\ temperature = 0 => dec_out = Zeros(y_max)

TrainRejectsEmpty ==
    (call = "forward" /\ (x_len = 0 \/ y_len = 0)) =>
        /\ pc = "error" /\ err = "InvalidLengthError"
        /\ attn = << >> /\ mu_y = << >>

\* C10 as stated: training refuses an example without valid tokens or valid
\* frames with InvalidLengthError, and so does inference an example without
\* valid tokens.
C10_AsStated ==
    /\ TrainRejectsEmpty
    /\ (Synthesised /\ x_len = 0) => (pc = "error" /\ err = "InvalidLengthError")

\* C10, amended: training refuses an example without valid tokens or valid
\* frames with InvalidLengthError; inference raises no length error: an
\* example without valid tokens gets the output length 1, its one valid
\* frame has no token and its expanded prior is 0.
C10_EmptySequences ==
    /\ TrainRejectsEmpty
    /\ Synthesised => err # "InvalidLengthError"
    /\ (Synthesised /\ x_len = 0) =>
          /\ TotalDuration = 0
          /\ y_len = 1 /\ y_max = LenFactor
          /\ \A j \in Range0(y_max) : TokensOf(j) = {} /\ mu_y[j] = 0

C10_Witness ==
    /\ Synthesised /\ x_len = 0 /\ x_max = 2
    /\ pc = "done" /\ y_len = 1 /\ n_timesteps = 1

====
